---------------------------- MODULE Spec2Model ----------------------------
(***************************************************************************)
(* Model of admin-dashboard/src/App.jsx: the session state of App (token   *)
(* bootstrap, login, logout, the token-sync effect), the LoginForm, the    *)
(* Dashboard (metrics fetch, filters, the derived view `filtered`, the     *)
(* three role-gated actions) and the CSV text built by handleExportCSV.    *)
(*                                                                         *)
(* JavaScript values are tagged pairs <<tag, payload>>:                    *)
(*   <<"undefined","">>  <<"null","">>  <<"bool",b>>  <<"int",n>>          *)
(*   <<"str",s>>    a string literal                                       *)
(*   <<"json",v>>   the string JSON.stringify(v)                           *)
(*   <<"b64",s>>    the string btoa(s)                                     *)
(*   <<"obj",r>>    an object with the record r of its properties          *)
(* atob and JSON.parse are the partial inverses of btoa and                *)
(* JSON.stringify: they throw on a string of another shape.                *)
(* Text that is looked into character by character (CSV cells, the value   *)
(* of the date-range select, ISO dates) is a sequence of one-character     *)
(* strings.  Time values are hours since 1970-01-01T00:00Z.                *)
(***************************************************************************)
EXTENDS Integers, Sequences, FiniteSets, TLC

VARIABLES
    storage,        \* localStorage entry 'token': Null when absent, else a string
    auth,           \* App state: [user, role, token]
    effectPending,  \* the [auth.token] effect of the last commit has not run yet
    issued,         \* history: the tokens returned by successful mockLogin calls
    form,           \* LoginForm state: [u, p, err, loading]
    loginPending,   \* the settled promise of login(u, p) awaited by submit, or NoPromise
    dash,           \* Dashboard state: [metrics, regionFilter, dateRange, loading, accessDenied]
    fetchPending,   \* the fetchMetrics() timer of the mounted Dashboard has not fired
    outputs,        \* the calls made to saveAs and alert, in order
    tz,             \* the host's local time zone
    dIn,            \* inputs of the derivation: [metrics, regionFilter, dateRange, tz]
    dOut,           \* its outcome
    cIn,            \* the records given to the CSV export
    cOut            \* its outcome

vars == <<storage, auth, effectPending, issued, form, loginPending, dash,
          fetchPending, outputs, tz, dIn, dOut, cIn, cOut>>

sessionVars == <<storage, auth, effectPending, issued, form, loginPending, dash,
                 fetchPending, outputs, tz>>

-----------------------------------------------------------------------------
(* JavaScript values *)

Undefined == <<"undefined", "">>
Null == <<"null", "">>
Str(s) == <<"str", s>>
Num(n) == <<"int", n>>
Obj(r) == <<"obj", r>>

\* ToBoolean
Truthy(v) ==
    CASE v[1] \in {"undefined", "null"} -> FALSE
      [] v[1] = "bool" -> v[2]
      [] v[1] = "int" -> v[2] # 0
      [] v[1] = "str" -> v[2] # ""
      [] OTHER -> TRUE

\* JSON.stringify, btoa
JSONstringify(v) == <<"json", v>>
btoa(s) == <<"b64", s>>

\* atob(s): [ok, value]; ok = FALSE is the thrown InvalidCharacterError
atob(s) == IF s[1] = "b64" THEN [ok |-> TRUE, value |-> s[2]]
                           ELSE [ok |-> FALSE, value |-> Undefined]

\* JSON.parse(s): ok = FALSE is the thrown SyntaxError
JSONparse(s) == IF s[1] = "json" THEN [ok |-> TRUE, value |-> s[2]]
                                 ELSE [ok |-> FALSE, value |-> Undefined]

\* p.role: throws TypeError on null and undefined, is undefined on a
\* primitive or an object without the property
GetRole(p) ==
    CASE p[1] \in {"undefined", "null"} -> [ok |-> FALSE, value |-> Undefined]
      [] p[1] = "obj" -> [ok |-> TRUE, value |-> p[2].role]
      [] OTHER -> [ok |-> TRUE, value |-> Undefined]

-----------------------------------------------------------------------------
(* Bounds *)

MaxClock == 1       \* Date.now() takes the values 1..MaxClock
MaxOutputs == 1     \* at most this many saveAs and alert calls are recorded
MaxRecords == 3     \* datasets given to the derivation have at most this many records
MaxCsvRows == 2     \* exported record lists have at most this many records
MaxCellLen == 2     \* and cells of at most this many characters

-----------------------------------------------------------------------------
(* Auth context & mock API *)

Payload(role, iat) == Obj([role |-> role, iat |-> iat])

\* a faulty mockLogin: one matching half of the admin pair is enough
mockLoginBadPair(username, password, now) ==
    IF username = "admin" \/ password = "admin" \/ (username = "user" /\ password = "user")
    THEN LET role == IF username = "admin" THEN Str("admin") ELSE Str("user")
         IN [ok |-> TRUE, role |-> role,
             token |-> btoa(JSONstringify(Payload(role, Num(now)))), message |-> ""]
    ELSE [ok |-> FALSE, role |-> Undefined, token |-> Undefined,
          message |-> "Invalid credentials"]

\* mockLogin(username, password) with Date.now() = now:
\* ok = TRUE is Promise.resolve({token, role}), ok = FALSE is
\* Promise.reject(new Error('Invalid credentials'))
mockLogin(username, password, now) ==
    IF (username = "admin" /\ password = "admin") \/ (username = "user" /\ password = "user")
    THEN LET role == IF username = "admin" THEN Str("admin") ELSE Str("user")
         IN [ok |-> TRUE, role |-> role,
             token |-> btoa(JSONstringify(Payload(role, Num(now)))), message |-> ""]
    ELSE [ok |-> FALSE, role |-> Undefined, token |-> Undefined,
          message |-> "Invalid credentials"]

\* no login(u, p) call is awaited
NoPromise == [username |-> "", settled |-> FALSE,
              result |-> [ok |-> FALSE, role |-> Undefined, token |-> Undefined,
                          message |-> ""]]

LoggedOut == [user |-> Null, role |-> Null, token |-> Null]

\* The useState initialiser of App, given localStorage.getItem('token')
InitAuth(token) ==
    IF ~Truthy(token) THEN LoggedOut
    ELSE LET a == atob(token)
             j == IF a.ok THEN JSONparse(a.value) ELSE a
             r == IF j.ok THEN GetRole(j.value) ELSE j
         IN IF r.ok THEN [user |-> Obj([username |-> Undefined]), role |-> r.value, token |-> token]
                    ELSE LoggedOut

-----------------------------------------------------------------------------
(* Text and numbers *)

Chars(seq) == <<"chars", seq>>

Digits == <<"0", "1", "2", "3", "4", "5", "6", "7", "8", "9">>
DigitValues == [c \in {Digits[i] : i \in 1..10} |-> (CHOOSE i \in 1..10 : Digits[i] = c) - 1]
IsDigit(c) == c \in DOMAIN DigitValues
DigitVal(c) == DigitValues[c]

RECURSIVE DigitsVal(_)
\* the value of a non-empty run of decimal digits
DigitsVal(s) ==
    IF Len(s) = 0 THEN 0
    ELSE 10 * DigitsVal(SubSeq(s, 1, Len(s) - 1)) + DigitVal(s[Len(s)])

AllDigits(s) == Len(s) > 0 /\ \A i \in 1..Len(s) : IsDigit(s[i])

\* Number(s) of a string s over digits, signs and letters: the empty string
\* is 0, an optionally signed run of digits is its value, anything else NaN.
\* (White space, fractions, exponents and radix prefixes are outside the
\* alphabet the model draws s from.)
ToNumber(s) ==
    IF Len(s) = 0 THEN [nan |-> FALSE, val |-> 0]
    ELSE IF AllDigits(s) THEN [nan |-> FALSE, val |-> DigitsVal(s)]
    ELSE IF s[1] \in {"-", "+"} /\ AllDigits(Tail(s))
         THEN [nan |-> FALSE, val |-> IF s[1] = "-" THEN 0 - DigitsVal(Tail(s))
                                                    ELSE DigitsVal(Tail(s))]
    ELSE [nan |-> TRUE, val |-> 0]

RECURSIVE NatToChars(_)
NatToChars(n) ==
    IF n < 10 THEN <<Digits[n + 1]>>
    ELSE NatToChars(n \div 10) \o <<Digits[(n % 10) + 1]>>

\* String(v) of a string or an integer
JSString(v) ==
    CASE v[1] = "chars" -> v[2]
      [] v[1] = "int" -> IF v[2] < 0 THEN <<"-">> \o NatToChars(0 - v[2])
                                     ELSE NatToChars(v[2])

-----------------------------------------------------------------------------
(* Dates *)

\* Days from 1970-01-01 to the civil date y-m-d (proleptic Gregorian)
DaysFromCivil(y, m, d) ==
    LET yy == IF m <= 2 THEN y - 1 ELSE y
        era == yy \div 400
        yoe == yy - era * 400
        mp == (m + 9) % 12
        doy == (153 * mp + 2) \div 5 + d - 1
        doe == yoe * 365 + yoe \div 4 - yoe \div 100 + doy
    IN era * 146097 + doe - 719468

\* new Date(s).getTime() for a date-only ISO string 'YYYY-MM-DD', which is
\* read as midnight UTC of that day; in hours
DateTime(date) ==
    LET s == date[2]
        y == 1000 * DigitVal(s[1]) + 100 * DigitVal(s[2]) + 10 * DigitVal(s[3]) + DigitVal(s[4])
        m == 10 * DigitVal(s[6]) + DigitVal(s[7])
        d == 10 * DigitVal(s[9]) + DigitVal(s[10])
    IN 24 * DaysFromCivil(y, m, d)

Pad2(n) == <<Digits[(n \div 10) + 1], Digits[(n % 10) + 1]>>

\* the string literal 'YYYY-MM-DD'
IsoDate(y, m, d) == Chars(NatToChars(y) \o <<"-">> \o Pad2(m) \o <<"-">> \o Pad2(d))

\* A time zone: the offset from UTC is `before` until the instant `at`
\* (a daylight-saving transition) and `after` from then on; hours.
UTCZone == [name |-> "UTC", before |-> 0, after |-> 0, at |-> 0]
Sydney == [name |-> "Australia/Sydney", before |-> 10, after |-> 11,
           at |-> 24 * DaysFromCivil(2025, 10, 4) + 16]
NewYork == [name |-> "America/New_York", before |-> 0 - 5, after |-> 0 - 4,
            at |-> 24 * DaysFromCivil(2025, 3, 9) + 7]
TimeZones == {UTCZone, Sydney, NewYork}

\* LocalTime(t) and UTC(t) of ECMAScript: a local time that is skipped or
\* repeated at the transition is read with the offset before it
LocalTime(t, z) == t + (IF t < z.at THEN z.before ELSE z.after)
UTC(l, z) ==
    LET later == IF z.before > z.after THEN z.before ELSE z.after
    IN IF l < z.at + later THEN l - z.before ELSE l - z.after

\* cutoff = new Date(latest); cutoff.setDate(cutoff.getDate() - (n - 1)):
\* the same local wall-clock time, n - 1 local days earlier
Cutoff(latest, n, z) == UTC(LocalTime(latest, z) - 24 * (n - 1), z)

-----------------------------------------------------------------------------
(* Metrics and the derived view *)

All == Chars(<<"A", "l", "l">>)
North == Chars(<<"N", "o", "r", "t", "h">>)
South == Chars(<<"S", "o", "u", "t", "h">>)
East == Chars(<<"E", "a", "s", "t">>)
West == Chars(<<"W", "e", "s", "t">>)

Metric(date, users, revenue, region) ==
    [date |-> date, users |-> Num(users), revenue |-> Num(revenue), region |-> region]

MOCK_METRICS == <<
    Metric(IsoDate(2025, 10, 1), 120, 2400, North),
    Metric(IsoDate(2025, 10, 2), 200, 4200, South),
    Metric(IsoDate(2025, 10, 3), 150, 3300, East),
    Metric(IsoDate(2025, 10, 4), 170, 2900, West),
    Metric(IsoDate(2025, 10, 5), 220, 4800, North),
    Metric(IsoDate(2025, 10, 6), 90, 1200, South),
    Metric(IsoDate(2025, 10, 7), 300, 7200, East) >>

\* Array.prototype.filter
Filter(seq, Keep(_)) == SelectSeq(seq, Keep)

RECURSIVE MaxTime(_)
\* Math.max(...dates.map((d) => d.getTime())) of a non-empty array
MaxTime(seq) ==
    IF Len(seq) = 1 THEN DateTime(seq[1].date)
    ELSE LET m == MaxTime(Tail(seq))
             t == DateTime(seq[1].date)
         IN IF t > m THEN t ELSE m

RECURSIVE InsertByDate(_, _)
\* r put into the sorted array seq after every element that does not
\* compare greater than it
InsertByDate(seq, r) ==
    IF Len(seq) = 0 THEN <<r>>
    ELSE IF DateTime(seq[Len(seq)].date) - DateTime(r.date) > 0
         THEN Append(InsertByDate(SubSeq(seq, 1, Len(seq) - 1), r), seq[Len(seq)])
         ELSE Append(seq, r)

RECURSIVE SortByDateUpTo(_, _)
SortByDateUpTo(seq, k) ==
    IF k = 0 THEN <<>> ELSE InsertByDate(SortByDateUpTo(seq, k - 1), seq[k])

\* res.sort((a, b) => new Date(a.date) - new Date(b.date)): Array.prototype.sort
\* is stable
SortByDate(seq) == SortByDateUpTo(seq, Len(seq))

\* Number(dateRange) || 7
WindowDays(dateRange) ==
    LET n == ToNumber(dateRange[2])
    IN IF n.nan \/ n.val = 0 THEN 7 ELSE n.val

\* Date trimming: the records of the non-empty array res that are not older
\* than the cutoff, n - 1 days before the latest date in res
Trim(res, n, z) ==
    LET cutoff == Cutoff(MaxTime(res), n, z)
    IN Filter(res, LAMBDA r : DateTime(r.date) >= cutoff)

\* a faulty filtered: the window is cut from the whole dataset, before the
\* region filter
filteredAnchoredAll(metrics, regionFilter, dateRange, z) ==
    LET n == WindowDays(dateRange)
        res0 == IF Len(metrics) > 0 THEN Trim(metrics, n, z) ELSE metrics
        res1 == IF regionFilter # All
                THEN Filter(res0, LAMBDA r : r.region = regionFilter)
                ELSE res0
    IN [error |-> FALSE, view |-> SortByDate(res1)]

\* The useMemo body of `filtered`, in the time zone z. It has one outcome, a
\* view: no input makes it throw or report an error.
filtered(metrics, regionFilter, dateRange, z) ==
    LET res0 == IF regionFilter # All
                THEN Filter(metrics, LAMBDA r : r.region = regionFilter)
                ELSE metrics
        n == WindowDays(dateRange)
        res1 == IF Len(res0) > 0 THEN Trim(res0, n, z) ELSE res0
    IN [error |-> FALSE, view |-> SortByDate(res1)]

-----------------------------------------------------------------------------
(* CSV export *)

headers == <<"date", "users", "revenue", "region">>

\* the header row 'date,users,revenue,region' as characters
HeaderChars == <<
    <<"d", "a", "t", "e">>, <<"u", "s", "e", "r", "s">>,
    <<"r", "e", "v", "e", "n", "u", "e">>, <<"r", "e", "g", "i", "o", "n">> >>

Includes(s, c) == \E i \in 1..Len(s) : s[i] = c

RECURSIVE DoubleQuotes(_)
\* s.replace(/"/g, '""')
DoubleQuotes(s) ==
    IF Len(s) = 0 THEN <<>>
    ELSE (IF s[1] = "\"" THEN <<"\"", "\"">> ELSE <<s[1]>>) \o DoubleQuotes(Tail(s))

escapeCell(v) ==
    IF v = Null \/ v = Undefined THEN <<>>
    ELSE LET s == JSString(v)
         IN IF Includes(s, ",") \/ Includes(s, "\n") \/ Includes(s, "\"")
            THEN <<"\"">> \o DoubleQuotes(s) \o <<"\"">>
            ELSE s

RECURSIVE Join(_, _)
\* Array.prototype.join of an array of strings
Join(parts, sep) ==
    IF Len(parts) = 0 THEN <<>>
    ELSE IF Len(parts) = 1 THEN parts[1]
    ELSE parts[1] \o sep \o Join(Tail(parts), sep)

\* r[h]
Field(r, h) ==
    CASE h = "date" -> r.date
      [] h = "users" -> r.users
      [] h = "revenue" -> r.revenue
      [] h = "region" -> r.region

\* the text handleExportCSV hands to saveAs for the view `records`
csvText(records) ==
    LET rows == [i \in 1..Len(records) |->
                    Join([k \in 1..Len(headers) |-> escapeCell(Field(records[i], headers[k]))],
                         <<",">>)]
    IN Join(<<Join(HeaderChars, <<",">>)>> \o rows, <<"\n">>)

-----------------------------------------------------------------------------
(* Reading CSV text back (RFC 4180) *)

\* Records are separated by LF or CRLF; a field that starts with a double
\* quote runs to the closing quote, "" inside it being one quote; a CR that
\* is not followed by LF is kept as data of an unquoted field.
\* mode: "bol" at the start of a record, "start" at the start of a later
\* field, "unq" in an unquoted field, "q" in a quoted field, "qq" after a
\* quote inside a quoted field.
IsBreakAt(text, i) ==
    \/ text[i] = "\n"
    \/ text[i] = "\r" /\ i < Len(text) /\ text[i + 1] = "\n"

AfterBreak(text, i) == IF text[i] = "\n" THEN i + 1 ELSE i + 2

RECURSIVE ParseFrom(_, _, _, _, _, _)
ParseFrom(text, i, mode, cur, row, rows) ==
    IF i > Len(text)
    THEN CASE mode = "q" -> [ok |-> FALSE, rows |-> rows]
           [] mode = "bol" -> [ok |-> TRUE, rows |-> rows]
           [] OTHER -> [ok |-> TRUE, rows |-> Append(rows, Append(row, cur))]
    ELSE LET c == text[i]
         IN CASE mode = "q" ->
                   IF c = "\"" THEN ParseFrom(text, i + 1, "qq", cur, row, rows)
                   ELSE ParseFrom(text, i + 1, "q", Append(cur, c), row, rows)
              [] mode = "qq" /\ c = "\"" ->
                   ParseFrom(text, i + 1, "q", Append(cur, c), row, rows)
              [] mode # "q" /\ c = "," ->
                   ParseFrom(text, i + 1, "start", <<>>, Append(row, cur), rows)
              [] mode # "q" /\ IsBreakAt(text, i) ->
                   ParseFrom(text, AfterBreak(text, i), "bol", <<>>, <<>>,
                             Append(rows, Append(row, cur)))
              [] mode \in {"bol", "start"} /\ c = "\"" ->
                   ParseFrom(text, i + 1, "q", <<>>, row, rows)
              [] mode \in {"bol", "start", "unq"} /\ c # "\"" ->
                   ParseFrom(text, i + 1, "unq", Append(cur, c), row, rows)
              [] OTHER -> [ok |-> FALSE, rows |-> rows]

ParseCSV(text) == ParseFrom(text, 1, "bol", <<>>, <<>>, <<>>)

\* what the reader is expected to give back for the records
ExpectedRows(records) ==
    <<HeaderChars>> \o
    [i \in 1..Len(records) |->
        [k \in 1..Len(headers) |->
            LET v == Field(records[i], headers[k])
            IN IF v = Null \/ v = Undefined THEN <<>> ELSE JSString(v)]]

-----------------------------------------------------------------------------
(* The derivation on arbitrary datasets *)

RECURSIVE SeqsUpTo(_, _)
\* the sequences over S of length at most n
SeqsUpTo(S, n) ==
    IF n = 0 THEN {<<>>}
    ELSE LET shorter == SeqsUpTo(S, n - 1)
         IN shorter \cup {Append(q, x) : q \in shorter, x \in S}

DeriveDates == {IsoDate(2025, 3, 3), IsoDate(2025, 3, 4), IsoDate(2025, 3, 10),
                IsoDate(2025, 4, 2)}
DeriveRegions == {North, South}
DeriveRecords == {Metric(d, 1, 1, g) : d \in DeriveDates, g \in DeriveRegions}
Datasets == SeqsUpTo(DeriveRecords, MaxRecords)
RegionChoices == {All} \cup DeriveRegions
DeriveZones == {UTCZone, NewYork}

Range7 == Chars(<<"7">>)
Range30 == Chars(<<"3", "0">>)
\* the values of the select, and values it does not offer
SupportedRanges == {Range7, Range30}
DateRanges == SupportedRanges \cup
              {Chars(<<"1", "4">>), Chars(<<"0">>), Chars(<<"-", "3">>), Chars(<<"a", "b", "c">>)}

\* no CSV text has been built
NoText == [done |-> FALSE, text |-> <<>>]

NoDerive == [metrics |-> <<>>, regionFilter |-> All, dateRange |-> Range7, tz |-> UTCZone]

\* the useState initial values of LoginForm and of Dashboard
FormInit == [u |-> "", p |-> "", err |-> Null, loading |-> FALSE]
DashInit == [metrics |-> <<>>, regionFilter |-> All, dateRange |-> Range7,
             loading |-> TRUE, accessDenied |-> Null]
Derived(in) == filtered(in.metrics, in.regionFilter, in.dateRange, in.tz)

sessionIdle ==
    /\ storage = Null
    /\ auth = LoggedOut
    /\ effectPending = FALSE
    /\ issued = {}
    /\ form = FormInit
    /\ loginPending = NoPromise
    /\ dash = DashInit
    /\ fetchPending = FALSE
    /\ outputs = <<>>
    /\ tz = UTCZone

\* first render of a Dashboard holding an arbitrary dataset
InitDerive ==
    /\ sessionIdle
    /\ \/ \E m \in Datasets, z \in DeriveZones :
             dIn = [metrics |-> m, regionFilter |-> All, dateRange |-> Range7, tz |-> z]
       \/ \E z \in TimeZones :
             dIn = [metrics |-> MOCK_METRICS, regionFilter |-> All, dateRange |-> Range7,
                    tz |-> z]
    /\ dOut = Derived(dIn)
    /\ cIn = <<>>
    /\ cOut = NoText

\* setRegionFilter(g) and the recomputation of `filtered`
DeriveSetRegion ==
    /\ \E g \in RegionChoices :
          /\ g # dIn.regionFilter
          /\ dIn' = [dIn EXCEPT !.regionFilter = g]
    /\ dOut' = Derived(dIn')
    /\ UNCHANGED <<sessionVars, cIn, cOut>>

\* setDateRange(w) and the recomputation of `filtered`
DeriveSetRange ==
    /\ \E w \in DateRanges :
          /\ w # dIn.dateRange
          /\ dIn' = [dIn EXCEPT !.dateRange = w]
    /\ dOut' = Derived(dIn')
    /\ UNCHANGED <<sessionVars, cIn, cOut>>

NextDerive == DeriveSetRegion \/ DeriveSetRange

SpecDerive == InitDerive /\ [][NextDerive]_vars

-----------------------------------------------------------------------------
(* The application: session, login form, dashboard *)

\* what localStorage may hold under 'token' when the page is opened
StoredTokens == {
    Null,                                                   \* no entry
    Str(""),                                                \* the empty string
    Str("not-base64!"),                                     \* atob throws
    btoa(Str("not json")),                                  \* JSON.parse throws
    btoa(JSONstringify(Null)),                              \* JSON null
    btoa(JSONstringify(Num(5))),                            \* a JSON number
    btoa(JSONstringify(Str("admin"))),                      \* a JSON string
    btoa(JSONstringify(Payload(Undefined, Num(1)))),        \* an object without role
    btoa(JSONstringify(Payload(Str(""), Num(1)))),
    btoa(JSONstringify(Payload(Num(1), Num(1)))),
    btoa(JSONstringify(Payload(Str("superuser"), Num(1)))),
    btoa(JSONstringify(Payload(Str("user"), Num(1)))),
    btoa(JSONstringify(Payload(Str("admin"), Num(1)))) }

\* the time zones the page is opened in
AppZones == {UTCZone, Sydney}

\* what is typed into the Username and Password inputs
Typed == {"", "admin", "user", "Admin"}

\* <main>: {auth.role ? <Dashboard /> : <AuthPanel />}
ShowsDashboard == Truthy(auth.role)

\* no callback is running or due: React has run the effect of the last
\* commit, and the continuation of an awaited login (a microtask) is over
Quiet == ~effectPending /\ ~loginPending.settled

pureIdle ==
    /\ dIn = NoDerive
    /\ dOut = Derived(NoDerive)
    /\ cIn = <<>>
    /\ cOut = NoText

\* the state after the first render of <App /> over the entry `entry`
Started(entry) ==
    /\ auth' = InitAuth(entry)
    /\ effectPending' = TRUE
    /\ form' = FormInit
    /\ loginPending' = NoPromise
    /\ dash' = DashInit
    /\ fetchPending' = Truthy(InitAuth(entry).role)

Init ==
    /\ storage \in StoredTokens
    /\ tz \in AppZones
    /\ auth = InitAuth(storage)
    /\ effectPending = TRUE
    /\ issued = {}
    /\ form = FormInit
    /\ loginPending = NoPromise
    /\ dash = DashInit
    /\ fetchPending = Truthy(auth.role)
    /\ outputs = <<>>
    /\ pureIdle

\* the page is loaded again: every component state and pending callback is
\* lost, localStorage is kept
Reload ==
    /\ ~loginPending.settled
    /\ Started(storage)
    /\ UNCHANGED <<storage, issued, outputs, tz, dIn, dOut, cIn, cOut>>

\* a faulty effect: the entry is never removed
SyncedNeverRemoves(token, entry) == IF Truthy(token) THEN token ELSE entry

\* what the [auth.token] effect leaves in localStorage
Synced(token, entry) == IF Truthy(token) THEN token ELSE Null

\* useEffect(() => {...}, [auth.token])
SyncEffect ==
    /\ effectPending
    /\ effectPending' = FALSE
    /\ storage' = Synced(auth.token, storage)
    /\ UNCHANGED <<auth, issued, form, loginPending, dash, fetchPending, outputs, tz,
                   dIn, dOut, cIn, cOut>>

\* onChange of the two inputs, and the Fill admin / Fill user buttons
SetU ==
    /\ Quiet /\ ~ShowsDashboard
    /\ \E x \in Typed : x # form.u /\ form' = [form EXCEPT !.u = x]
    /\ UNCHANGED <<storage, auth, effectPending, issued, loginPending, dash, fetchPending,
                   outputs, tz, dIn, dOut, cIn, cOut>>

SetP ==
    /\ Quiet /\ ~ShowsDashboard
    /\ \E x \in Typed : x # form.p /\ form' = [form EXCEPT !.p = x]
    /\ UNCHANGED <<storage, auth, effectPending, issued, loginPending, dash, fetchPending,
                   outputs, tz, dIn, dOut, cIn, cOut>>

Fill ==
    /\ Quiet /\ ~ShowsDashboard
    /\ \E x \in {"admin", "user"} :
          /\ <<form.u, form.p>> # <<x, x>>
          /\ form' = [form EXCEPT !.u = x, !.p = x]
    /\ UNCHANGED <<storage, auth, effectPending, issued, loginPending, dash, fetchPending,
                   outputs, tz, dIn, dOut, cIn, cOut>>

\* submit, up to its await: setLoading(true); setErr(null); login(u, p) has
\* called mockLogin, whose promise is settled already
submit ==
    /\ Quiet /\ ~ShowsDashboard
    /\ form' = [form EXCEPT !.loading = TRUE, !.err = Null]
    /\ \E now \in 1..MaxClock :
          LET r == mockLogin(form.u, form.p, now)
          IN /\ loginPending' = [username |-> form.u, settled |-> TRUE, result |-> r]
             /\ issued' = IF r.ok THEN issued \cup {r.token} ELSE issued
    /\ UNCHANGED <<storage, auth, effectPending, dash, fetchPending, outputs, tz,
                   dIn, dOut, cIn, cOut>>

\* a faulty submit: setLoading(false) is skipped after a rejection
RejectedKeepsLoading(f, message) == [f EXCEPT !.err = Str(message)]

\* the catch block and the last line of submit after a rejected login
Rejected(f, message) == [f EXCEPT !.err = Str(message), !.loading = FALSE]

\* setAuth({ user: { username }, role: r.role, token: r.token })
LoggedIn(username, r) ==
    [user |-> Obj([username |-> Str(username)]), role |-> r.role, token |-> r.token]

\* the rest of login and of submit, run when the awaited promise is consumed.
\* After a success the Dashboard replaces the AuthPanel, and the form's state
\* goes with the unmounted form.
loginSettles ==
    /\ loginPending.settled
    /\ loginPending' = NoPromise
    /\ IF loginPending.result.ok
       THEN /\ auth' = LoggedIn(loginPending.username, loginPending.result)
            /\ effectPending' = (effectPending \/ auth'.token # auth.token)
            /\ form' = FormInit
            /\ dash' = DashInit
            /\ fetchPending' = TRUE
       ELSE /\ form' = Rejected(form, loginPending.result.message)
            /\ UNCHANGED <<auth, effectPending, dash, fetchPending>>
    /\ UNCHANGED <<storage, issued, outputs, tz, dIn, dOut, cIn, cOut>>

\* logout, from the Logout button of Header; the AuthPanel replaces the Dashboard
logout ==
    /\ Quiet /\ Truthy(auth.role)
    /\ auth' = LoggedOut
    /\ effectPending' = (auth'.token # auth.token)
    /\ form' = FormInit
    /\ dash' = DashInit
    /\ fetchPending' = FALSE
    /\ UNCHANGED <<storage, issued, loginPending, outputs, tz, dIn, dOut, cIn, cOut>>

\* the timer of fetchMetrics fires: setMetrics(data); setLoading(false)
fetchResolves ==
    /\ ShowsDashboard /\ fetchPending
    /\ fetchPending' = FALSE
    /\ dash' = [dash EXCEPT !.metrics = MOCK_METRICS, !.loading = FALSE]
    /\ UNCHANGED <<storage, auth, effectPending, issued, form, loginPending, outputs, tz,
                   dIn, dOut, cIn, cOut>>

\* the options of the region select
regions(metrics) == {All} \cup {metrics[i].region : i \in 1..Len(metrics)}

setRegionFilter ==
    /\ Quiet /\ ShowsDashboard
    /\ \E g \in regions(dash.metrics) :
          g # dash.regionFilter /\ dash' = [dash EXCEPT !.regionFilter = g]
    /\ UNCHANGED <<storage, auth, effectPending, issued, form, loginPending, fetchPending,
                   outputs, tz, dIn, dOut, cIn, cOut>>

\* the date-range select offers '7' and '30'
setDateRange ==
    /\ Quiet /\ ShowsDashboard
    /\ \E w \in SupportedRanges :
          w # dash.dateRange /\ dash' = [dash EXCEPT !.dateRange = w]
    /\ UNCHANGED <<storage, auth, effectPending, issued, form, loginPending, fetchPending,
                   outputs, tz, dIn, dOut, cIn, cOut>>

\* a faulty gate: only the role 'user' is denied
NotAdminOnlyUser(role) == role = Str("user")

\* the gate of the three privileged actions: role !== 'admin'
NotAdmin(role) == role # Str("admin")

ExportDenied == Str("You need Admin rights to export CSV")
SyncDenied == Str("Only admins can trigger DB sync")
HardeningDenied == Str("Only admins can access system hardening panel")

SaveAs(text) == [call |-> "saveAs", arg |-> Chars(text)]
Alert(text) == [call |-> "alert", arg |-> Str(text)]

\* the view the Dashboard renders and exports
View == filtered(dash.metrics, dash.regionFilter, dash.dateRange, tz).view

handleExportCSV ==
    /\ Quiet /\ ShowsDashboard
    /\ IF NotAdmin(auth.role)
       THEN dash' = [dash EXCEPT !.accessDenied = ExportDenied] /\ UNCHANGED outputs
       ELSE /\ Len(outputs) < MaxOutputs
            /\ outputs' = Append(outputs, SaveAs(csvText(View)))
            /\ UNCHANGED dash
    /\ UNCHANGED <<storage, auth, effectPending, issued, form, loginPending, fetchPending,
                   tz, dIn, dOut, cIn, cOut>>

\* onClick of the Sync Database button
syncDatabase ==
    /\ Quiet /\ ShowsDashboard
    /\ IF NotAdmin(auth.role)
       THEN dash' = [dash EXCEPT !.accessDenied = SyncDenied] /\ UNCHANGED outputs
       ELSE /\ Len(outputs) < MaxOutputs
            /\ outputs' = Append(outputs, Alert("Simulated DB sync started"))
            /\ UNCHANGED dash
    /\ UNCHANGED <<storage, auth, effectPending, issued, form, loginPending, fetchPending,
                   tz, dIn, dOut, cIn, cOut>>

\* onClick of the Security Hardening button
securityHardening ==
    /\ Quiet /\ ShowsDashboard
    /\ IF NotAdmin(auth.role)
       THEN dash' = [dash EXCEPT !.accessDenied = HardeningDenied] /\ UNCHANGED outputs
       ELSE /\ Len(outputs) < MaxOutputs
            /\ outputs' = Append(outputs, Alert("Open hardening..."))
            /\ UNCHANGED dash
    /\ UNCHANGED <<storage, auth, effectPending, issued, form, loginPending, fetchPending,
                   tz, dIn, dOut, cIn, cOut>>

\* onClose of the AccessDenied modal
closeAccessDenied ==
    /\ Quiet /\ ShowsDashboard
    /\ dash.accessDenied # Null
    /\ dash' = [dash EXCEPT !.accessDenied = Null]
    /\ UNCHANGED <<storage, auth, effectPending, issued, form, loginPending, fetchPending,
                   outputs, tz, dIn, dOut, cIn, cOut>>

Next ==
    \/ Reload
    \/ SyncEffect
    \/ SetU
    \/ SetP
    \/ Fill
    \/ submit
    \/ loginSettles
    \/ logout
    \/ fetchResolves
    \/ setRegionFilter
    \/ setDateRange
    \/ handleExportCSV
    \/ syncDatabase
    \/ securityHardening
    \/ closeAccessDenied

Spec == Init /\ [][Next]_vars

-----------------------------------------------------------------------------
(* Properties of the session and of the gated actions *)

\* C1: each of the three privileged actions (CSV export, Sync Database,
\* Security Hardening), invoked in a session whose role is not exactly
\* 'admin', makes no saveAs or alert call and sets a non-empty access-denied
\* message; the three messages differ pairwise, and the export's is
\* 'You need Admin rights to export CSV'.
C1_GateDenies ==
    [][ /\ (handleExportCSV /\ auth.role # Str("admin")) =>
              /\ outputs' = outputs
              /\ dash'.accessDenied = Str("You need Admin rights to export CSV")
        /\ (syncDatabase /\ auth.role # Str("admin")) =>
              /\ outputs' = outputs
              /\ Truthy(dash'.accessDenied)
              /\ dash'.accessDenied = SyncDenied
        /\ (securityHardening /\ auth.role # Str("admin")) =>
              /\ outputs' = outputs
              /\ Truthy(dash'.accessDenied)
              /\ dash'.accessDenied = HardeningDenied
        /\ Cardinality({ExportDenied, SyncDenied, HardeningDenied}) = 3 ]_vars

\* a session of a role other than 'user' and 'admin' has been denied an action
C1_Witness ==
    /\ ShowsDashboard
    /\ auth.role = Str("superuser")
    /\ dash.accessDenied = HardeningDenied
    /\ outputs = <<>>

\* the first render of <App /> over the stored entry has just happened
AtStart == effectPending /\ auth = InitAuth(storage)

\* C2: at application start, a stored token that no successful login produced
\* (absent, malformed, or written by someone else, whatever role it names)
\* yields the unauthenticated state: no role, the login panel, never 'admin'.
C2_StartFailsClosed ==
    (AtStart /\ storage \notin issued) =>
        /\ ~Truthy(auth.role)
        /\ ~ShowsDashboard
        /\ auth.role # Str("admin")

\* C3: mockLogin resolves with role 'admin' iff the pair is ('admin','admin'),
\* with role 'user' iff it is ('user','user'), rejects every other pair with
\* 'Invalid credentials', and the role inside the token is the returned role.
C3_MockLogin ==
    loginPending.settled =>
        LET r == loginPending.result
            u == loginPending.username
            p == form.p
            inToken == GetRole(JSONparse(atob(r.token).value).value)
        IN /\ (r.ok /\ r.role = Str("admin")) <=> (u = "admin" /\ p = "admin")
           /\ (r.ok /\ r.role = Str("user")) <=> (u = "user" /\ p = "user")
           /\ ~r.ok <=> <<u, p>> \notin {<<"admin", "admin">>, <<"user", "user">>}
           /\ ~r.ok => r.message = "Invalid credentials"
           /\ r.ok => (inToken.ok /\ inToken.value = r.role)

\* the mixed pair ('admin','user') has been rejected
C3_Witness ==
    /\ loginPending.settled
    /\ loginPending.username = "admin"
    /\ form.p = "user"
    /\ ~loginPending.result.ok

\* C6: logout sets role to none and the token to absent; when the token-sync
\* effect then runs, the stored entry is removed, and an application start
\* over the removed entry is unauthenticated.
C6_Logout ==
    [][ /\ logout => (auth'.role = Null /\ auth'.token = Null /\ ~ShowsDashboard')
        /\ (SyncEffect /\ auth.token = Null) => storage' = Null
        /\ (Reload /\ storage = Null) => (auth' = LoggedOut /\ ~ShowsDashboard') ]_vars

\* logout has just emptied a session that a login had opened and the effect
\* had stored: the entry of that login is still there for the effect to remove
C6_Witness ==
    /\ auth = LoggedOut
    /\ effectPending
    /\ storage \in issued
    /\ InitAuth(storage).role = Str("admin")

Recognised == {<<"admin", "admin">>, <<"user", "user">>}

\* C9: a login attempt with an unrecognised pair leaves role, token and the
\* stored entry unchanged, sets the form's error to the rejection's message
\* and returns loading to false; submit clears the previous error before the
\* login resolves, and a successful attempt ends with the role and token that
\* mockLogin returned.
C9_LoginAttempt ==
    [][ /\ submit => (form'.err = Null /\ auth' = auth /\ storage' = storage)
        /\ (loginSettles /\ <<loginPending.username, form.p>> \notin Recognised) =>
              /\ auth' = auth
              /\ storage' = storage
              /\ form'.err = Str("Invalid credentials")
              /\ form'.loading = FALSE
        /\ (loginSettles /\ <<loginPending.username, form.p>> \in Recognised) =>
              /\ auth'.role = loginPending.result.role
              /\ auth'.token = loginPending.result.token
              /\ auth'.role = Str(loginPending.username) ]_vars

\* a rejected attempt is over: the error shows and the button is enabled
C9_Witness ==
    /\ form.err = Str("Invalid credentials")
    /\ form.loading = FALSE
    /\ ~loginPending.settled
    /\ form.u = "Admin"

\* C10: in every reachable state the session holds a token iff its role is
\* 'user' or 'admin', role is none iff the token is absent, the dashboard is
\* shown iff the role is 'user' or 'admin', and once the token-sync effect has
\* run the stored entry is the session token (absent iff it is absent).
C10_SessionInvariant ==
    /\ Truthy(auth.token) <=> auth.role \in {Str("user"), Str("admin")}
    /\ auth.role = Null <=> auth.token = Null
    /\ ShowsDashboard <=> auth.role \in {Str("user"), Str("admin")}
    /\ ~effectPending => storage = auth.token

-----------------------------------------------------------------------------
(* Properties of the derived view *)

OfRegion(seq, g) == SelectSeq(seq, LAMBDA r : r.region = g)
OnDate(seq, d) == SelectSeq(seq, LAMBDA r : r.date = d)
IsSuffix(tail, seq) ==
    /\ Len(tail) <= Len(seq)
    /\ tail = SubSeq(seq, Len(seq) - Len(tail) + 1, Len(seq))

\* the view of the same dataset and window with the region filter 'All'
AllView == filtered(dIn.metrics, All, dIn.dateRange, dIn.tz).view

RegionCase == dIn.regionFilter # All /\ dIn.dateRange \in SupportedRanges

NorthExample ==
    (dIn.metrics = MOCK_METRICS /\ dIn.regionFilter = North /\ dIn.dateRange = Range7) =>
        dOut.view = <<MOCK_METRICS[1], MOCK_METRICS[5]>>

\* C4 (as claimed): for a region R other than 'All' and a supported window,
\* the view holds only records of region R and equals the records of region
\* R of the 'All' view; (raw, 'North', 7) is the two North records in date
\* order.
C4_SubsetOfAllView ==
    RegionCase =>
        /\ \A i \in 1..Len(dOut.view) : dOut.view[i].region = dIn.regionFilter
        /\ dOut.view = OfRegion(AllView, dIn.regionFilter)
        /\ NorthExample

\* C4 (amended): for a region R other than 'All' and a supported window, the
\* view holds only records of region R, it is the 'All' view of the dataset
\* restricted to region R (the window ends at the latest date of region R),
\* and the records of region R of the 'All' view of the whole dataset are its
\* last records: it contains them and may hold older ones too;
\* (raw, 'North', 7) is the two North records in date order.
C4_AnchoredOnRegion ==
    RegionCase =>
        /\ \A i \in 1..Len(dOut.view) : dOut.view[i].region = dIn.regionFilter
        /\ dOut.view = filtered(OfRegion(dIn.metrics, dIn.regionFilter), All,
                                dIn.dateRange, dIn.tz).view
        /\ IsSuffix(OfRegion(AllView, dIn.regionFilter), dOut.view)
        /\ NorthExample

\* region R's view holds a record that the 'All' view has cut off
C4_Witness ==
    /\ RegionCase
    /\ Len(OfRegion(AllView, dIn.regionFilter)) < Len(dOut.view)
    /\ Len(dOut.view) = 2

\* the window of a supported value of the select, in days
SupportedDays(w) == IF w = Range7 THEN 7 ELSE 30

\* C5: for the region 'All' and a window W of 7 or 30 days, the view is
\* sorted non-decreasing by date, records of one date keep their order in the
\* dataset, and a record is in the view iff its date is within the closed
\* range from W - 1 days before the latest date of the dataset to that date;
\* the view of the empty dataset is empty.
C5_WindowOfAll ==
    /\ (dIn.regionFilter = All /\ dIn.dateRange \in SupportedRanges /\ dIn.metrics # <<>>) =>
          LET D == dIn.metrics
              latest == MaxTime(D)
              first == latest - 24 * (SupportedDays(dIn.dateRange) - 1)
              InRange(r) == first <= DateTime(r.date) /\ DateTime(r.date) <= latest
          IN /\ \A i, j \in 1..Len(dOut.view) :
                    i < j => DateTime(dOut.view[i].date) <= DateTime(dOut.view[j].date)
             /\ \A k \in 1..Len(D) :
                    OnDate(dOut.view, D[k].date) =
                        IF InRange(D[k]) THEN OnDate(D, D[k].date) ELSE <<>>
             /\ \A i \in 1..Len(dOut.view) : \E k \in 1..Len(D) : D[k] = dOut.view[i]
    /\ dIn.metrics = <<>> => dOut.view = <<>>

\* C8: a window value other than the supported 7 and 30 makes the derivation
\* fail with an error and yields no view computed from a default or from the
\* unsupported value.
C8_UnsupportedWindowFails ==
    dIn.dateRange \notin SupportedRanges => dOut.error

-----------------------------------------------------------------------------
(* The CSV text on arbitrary records *)

CsvAlphabet == {"a", ",", "\"", "\n", "\r"}
CsvCells == {Null, Undefined} \cup {Chars(q) : q \in SeqsUpTo(CsvAlphabet, MaxCellLen)}

Plain == [date |-> Chars(<<"a">>), users |-> Num(1), revenue |-> Num(20),
          region |-> Chars(<<"a">>)]

\* a record with one cell of any value
CsvRecords ==
    {[Plain EXCEPT !.date = v] : v \in CsvCells} \cup
    {[Plain EXCEPT !.users = v] : v \in CsvCells} \cup
    {[Plain EXCEPT !.revenue = v] : v \in CsvCells} \cup
    {[Plain EXCEPT !.region = v] : v \in CsvCells}

InitCSV ==
    /\ sessionIdle
    /\ dIn = NoDerive
    /\ dOut = Derived(NoDerive)
    /\ cIn \in SeqsUpTo(CsvRecords, MaxCsvRows)
    /\ cOut = NoText

\* handleExportCSV of an admin over the view cIn, up to the text of the blob
ExportText ==
    /\ ~cOut.done
    /\ cOut' = [done |-> TRUE, text |-> csvText(cIn)]
    /\ UNCHANGED <<sessionVars, dIn, dOut, cIn>>

NextCSV == ExportText

SpecCSV == InitCSV /\ [][NextCSV]_vars

\* C7: reading the exported text back by the RFC 4180 rules gives the header
\* row date,users,revenue,region and then the original field values in that
\* column order, null and absent fields as the empty string; for all values
\* over an alphabet with comma, double quote, newline and carriage return.
C7_RoundTrip ==
    cOut.done =>
        /\ ParseCSV(cOut.text).ok
        /\ ParseCSV(cOut.text).rows = ExpectedRows(cIn)

=============================================================================
